---- MODULE Spec2Model ----
(***************************************************************************)
(* finam/export.py: the instrument catalog (ExporterMeta.lookup) and the   *)
(* chunked download loop (Exporter.download) as a state machine.           *)
(*                                                                         *)
(* Texts are sequences of tokens.  A token is one of the three provider    *)
(* error messages, a header field such as "<DATE>", one of the characters  *)
(* "<", ">", ";", the line break "NL", or a data field.  `x in data` of    *)
(* the source is token or character membership.  Catalog strings (name,    *)
(* code) are sequences of letters.                                         *)
(***************************************************************************)
EXTENDS Integers, Sequences, FiniteSets, TLC

VARIABLES
    meta,                      \* ExporterMeta._meta: NONE or the cached rows
    pc,                        \* position of the download() invocation
    id_, market, delay, max_in_progress_retries, timeframe,   \* its arguments
    items,                     \* download(): result of self._meta.lookup
    chunks,                    \* download(): list returned by split_interval
    counter,                   \* download(): chunk counter
    retries,                   \* download(): retries of the current chunk
    data,                      \* download(): the text fetched last, postprocessed
    df,                        \* download(): accumulated frame (NONE at start)
    error,                     \* exception that left download(), or "none"
    result,                    \* what download() returned (NONE until it returns)
    log,                       \* calls made to self._fetcher and time.sleep
    parsed,                    \* calls of pd.read_csv: the chunk and the text
    query,                     \* argument of the last ExporterMeta.lookup call
    found,                     \* what that call returned or raised
    fetched,                   \* what the last self._fetcher call returned
    metalog,                   \* calls the current call made to the metadata fetcher
    held,                      \* the frame the caller got from its last read
    driver,                    \* FetchMetaWebriver.driver
    pages_to_load_cur,         \* FetchMetaWebriver.pages_to_load_cur
    quits,                     \* calls of quit() made on each driver created
    gets,                      \* calls of driver.get(url): the driver used
    outcomes                   \* how each fetch_url_webdriver call ended

vars == <<meta, pc, id_, market, delay, max_in_progress_retries, timeframe,
          items, chunks, counter, retries, data, df, error, result, log, parsed,
          query, found, fetched, metalog, held, driver, pages_to_load_cur, quits,
          gets, outcomes>>

\* The state of FetchMetaWebriver and what is recorded of its use.
webdriverVars == <<driver, pages_to_load_cur, quits, gets, outcomes>>

\* Bounds of the model.
MaxChunks == 2
MaxRetries == 1
MaxFetches == 6

\* Python's None and a value that is not None.
NONE == [some |-> FALSE, v |-> <<>>]
Some(x) == [some |-> TRUE, v |-> x]

\* A frame handed to the caller: its rows, and whether it is the cached
\* object itself (alias) or a new object.  NoFrame: nothing was handed out.
Frame(alias, rows) == [some |-> TRUE, alias |-> alias, v |-> rows]
NoFrame == [some |-> FALSE, alias |-> FALSE, v |-> <<>>]

(***************************************************************************)
(* LookupComparator                                                        *)
(***************************************************************************)
EQUALS == 1
STARTSWITH == 2
CONTAINS == 3
LookupComparator == {EQUALS, STARTSWITH, CONTAINS}

(***************************************************************************)
(* Catalog rows and strings                                                *)
(***************************************************************************)
Row(i, n, c, m) == [id |-> i, name |-> n, code |-> c, market |-> m]

FINAM_CATEGORIES == -1

\* Series.str.startswith / Series.str.contains for values made of letters.
startswith(s, p) == Len(p) <= Len(s) /\ SubSeq(s, 1, Len(p)) = p

contains(s, p) ==
    \E k \in 0..(Len(s) - Len(p)) : SubSeq(s, k + 1, k + Len(p)) = p

\* Rows of seq whose position is set in mask, in position order.
RECURSIVE Select(_, _)
Select(seq, mask) ==
    IF seq = <<>> THEN <<>>
    ELSE (IF Head(mask) THEN <<Head(seq)>> ELSE <<>>)
         \o Select(Tail(seq), Tail(mask))

\* df.sort_values('market'): insertion of each row after the rows whose
\* market is not greater.
RECURSIVE InsertByMarket(_, _)
InsertByMarket(r, sorted) ==
    IF sorted = <<>> THEN <<r>>
    ELSE IF Head(sorted).market <= r.market
         THEN <<Head(sorted)>> \o InsertByMarket(r, Tail(sorted))
         ELSE <<r>> \o sorted

RECURSIVE SortByMarket(_)
SortByMarket(rows) ==
    IF rows = <<>> THEN <<>>
    ELSE InsertByMarket(rows[Len(rows)], SortByMarket(SubSeq(rows, 1, Len(rows) - 1)))

\* ExporterMetaFile._parse_js on the four decoded columns: junk rows
\* (market = FINAM_CATEGORIES) dropped, the rest sorted by market.
ParseJs(rows) ==
    SortByMarket(Select(rows, [k \in 1..Len(rows) |-> rows[k].market # FINAM_CATEGORIES]))

\* What the metadata fetcher serves.
a == <<"a">>
b == <<"b">>
ab == <<"a", "b">>
ba == <<"b", "a">>
bb == <<"b", "b">>

MetaFileA ==
    << Row(2, ab, b, 2), Row(1, a, a, 1), Row(0, b, b, FINAM_CATEGORIES),
       Row(1, ba, a, 1), Row(0, b, ab, 1), Row(1, bb, b, 2) >>

\* A line of the metadata file: whether it holds '[' and whether it holds ']'.
Brackets(open, close) == [open |-> open, close |-> close]
GoodLines == [k \in 1..4 |-> Brackets(TRUE, TRUE)]

MetaSources ==
    { [page |-> "ok", file |-> "ok", lines |-> GoodLines, rows |-> MetaFileA],
      [page |-> "io_error", file |-> "ok", lines |-> GoodLines, rows |-> <<>>],
      [page |-> "no_link", file |-> "ok", lines |-> GoodLines, rows |-> <<>>],
      [page |-> "ok", file |-> "io_error", lines |-> GoodLines, rows |-> <<>>],
      [page |-> "ok", file |-> "ok",
       lines |-> [GoodLines EXCEPT ![1] = Brackets(FALSE, TRUE)], rows |-> <<>>],
      [page |-> "ok", file |-> "ok",
       lines |-> [GoodLines EXCEPT ![4] = Brackets(TRUE, FALSE)], rows |-> <<>>] }

\* ExporterMetaFile._parse_js_assignment on one line: the exception raised
\* when line.find('[') or line.find(']') is -1, or "none".
_parse_js_assignment(line) ==
    IF ~line.open \/ ~line.close THEN "FinamDownloadError" ELSE "none"

\* ExporterMetaFile._parse_js up to the four columns: the exception of the
\* first of the four lines that _parse_js_assignment rejects, or "none".
RECURSIVE _parse_js(_, _)
_parse_js(lines, k) ==
    IF k > 4 THEN "none"
    ELSE IF _parse_js_assignment(lines[k]) # "none" THEN _parse_js_assignment(lines[k])
    ELSE _parse_js(lines, k + 1)

\* ExporterMeta._load: no fetch when the cache is set; otherwise the landing
\* page is fetched and searched for the script link, then the file is fetched
\* and parsed.  Returns the cache after the call and the exception, if any.
Load(m, src) ==
    IF m.some THEN [meta |-> m, err |-> "none"]
    ELSE IF src.page = "io_error" THEN [meta |-> m, err |-> "FinamDownloadError"]
    ELSE IF src.page = "no_link" THEN [meta |-> m, err |-> "FinamParsingError"]
    ELSE IF src.file = "io_error" THEN [meta |-> m, err |-> "FinamDownloadError"]
    ELSE IF _parse_js(src.lines, 1) # "none" THEN [meta |-> m, err |-> _parse_js(src.lines, 1)]
    ELSE [meta |-> Some(ParseJs(src.rows)), err |-> "none"]

\* Entries of metalog: a call of the metadata fetcher for the landing page
\* or for the metadata file, whether it raised, and the lines it returned.
MetaFetch(url, raised, lines) == [url |-> url, raised |-> raised, lines |-> lines]

\* A variant of LoadFetches that fetches again when the cache is set.
LoadFetchesAgain(m, src) ==
    IF src.page = "io_error" THEN <<MetaFetch("page", TRUE, <<>>)>>
    ELSE IF src.page = "no_link" THEN <<MetaFetch("page", FALSE, <<>>)>>
    ELSE IF src.file = "io_error"
         THEN <<MetaFetch("page", FALSE, <<>>), MetaFetch("file", TRUE, <<>>)>>
    ELSE <<MetaFetch("page", FALSE, <<>>), MetaFetch("file", FALSE, src.lines)>>

\* The calls ExporterMeta._load makes to the metadata fetcher.
LoadFetches(m, src) ==
    IF m.some THEN <<>>
    ELSE IF src.page = "io_error" THEN <<MetaFetch("page", TRUE, <<>>)>>
    ELSE IF src.page = "no_link" THEN <<MetaFetch("page", FALSE, <<>>)>>
    ELSE IF src.file = "io_error"
         THEN <<MetaFetch("page", FALSE, <<>>), MetaFetch("file", TRUE, <<>>)>>
    ELSE <<MetaFetch("page", FALSE, <<>>), MetaFetch("file", FALSE, src.lines)>>

(***************************************************************************)
(* Lookup arguments.  An argument is absent (None), one value, or a        *)
(* container of values.                                                    *)
(***************************************************************************)
Absent == [k |-> "none", vs |-> <<>>]
One(v) == [k |-> "one", vs |-> <<v>>]
Many(vs) == [k |-> "many", vs |-> vs]

\* Python truth value of an integer argument and of a string argument.
TruthyInt(x) ==
    CASE x.k = "none" -> FALSE
      [] x.k = "one" -> x.vs[1] # 0
      [] OTHER -> x.vs # <<>>

TruthyStr(x) ==
    CASE x.k = "none" -> FALSE
      [] x.k = "one" -> x.vs[1] # <<>>
      [] OTHER -> x.vs # <<>>

\* A variant of or_ that requires both.
or_both(x, y) == [k \in DOMAIN x |-> x[k] /\ y[k]]

\* operator.or_ / operator.and_ on two boolean columns.
or_(x, y) == [k \in DOMAIN x |-> x[k] \/ y[k]]
and_(x, y) == [k \in DOMAIN x |-> x[k] /\ y[k]]
Op(op, x, y) == IF op = "or" THEN or_(x, y) ELSE and_(x, y)

\* ExporterMeta._combine_filters: next(itr) on an empty iterator raises
\* StopIteration; otherwise the filters are folded from the left.
RECURSIVE Fold(_, _, _)
Fold(acc, rest, op) ==
    IF rest = <<>> THEN acc
    ELSE Fold(Op(op, acc, Head(rest)), Tail(rest), op)

_combine_filters(filters, op) ==
    IF filters = <<>> THEN [err |-> "StopIteration", expr |-> <<>>]
    ELSE [err |-> "none", expr |-> Fold(Head(filters), Tail(filters), op)]

\* ExporterMeta._apply_filter(col, val, comparator) on the cache m.
_apply_filter(m, col, val, comparator) ==
    IF comparator = EQUALS
    THEN [err |-> "none",
          expr |-> [k \in 1..Len(m) |-> \E j \in 1..Len(val.vs) : m[k][col] = val.vs[j]]]
    ELSE IF comparator = STARTSWITH
    THEN _combine_filters(
            [j \in 1..Len(val.vs) |-> [k \in 1..Len(m) |-> startswith(m[k][col], val.vs[j])]],
            "or")
    ELSE _combine_filters(
            [j \in 1..Len(val.vs) |-> [k \in 1..Len(m) |-> contains(m[k][col], val.vs[j])]],
            "or")

\* The guard of lookup: any((id_, code, name, market)).
AnySelector(q) ==
    TruthyInt(q.id_) \/ TruthyStr(q.code) \/ TruthyStr(q.name) \/ TruthyInt(q.market)

FilterGroups(q) ==
    << [col |-> "id", val |-> q.id_, comparator |-> EQUALS],
       [col |-> "code", val |-> q.code, comparator |-> q.code_comparator],
       [col |-> "name", val |-> q.name, comparator |-> q.name_comparator],
       [col |-> "market", val |-> q.market, comparator |-> EQUALS] >>

\* The loop over filter_groups from group g on: the filters appended, or the
\* exception of the first _apply_filter that raises.
RECURSIVE Filters(_, _, _)
Filters(m, q, g) ==
    IF g > 4 THEN [err |-> "none", filters |-> <<>>]
    ELSE LET grp == FilterGroups(q)[g]
             rest == Filters(m, q, g + 1)
         IN  IF grp.val.k = "none" THEN rest
             ELSE LET f == _apply_filter(m, grp.col, grp.val, grp.comparator)
                  IN  IF f.err # "none" THEN [err |-> f.err, filters |-> <<>>]
                      ELSE IF rest.err # "none" THEN rest
                      ELSE [err |-> "none", filters |-> <<f.expr>> \o rest.filters]

\* ExporterMeta.lookup(q) with the cache m, the metadata fetcher serving src.
\* kind is "ok" (rows returned) or the exception raised.
lookup(m, q, src) ==
    IF ~AnySelector(q) THEN [meta |-> m, kind |-> "ValueError", rows |-> <<>>]
    ELSE LET ld == Load(m, src) IN
         IF ld.err # "none" THEN [meta |-> ld.meta, kind |-> ld.err, rows |-> <<>>]
         ELSE LET fs == Filters(ld.meta.v, q, 1) IN
              IF fs.err # "none" THEN [meta |-> ld.meta, kind |-> fs.err, rows |-> <<>>]
              ELSE LET combined_filter == _combine_filters(fs.filters, "and") IN
                   IF combined_filter.err # "none"
                   THEN [meta |-> ld.meta, kind |-> combined_filter.err, rows |-> <<>>]
                   ELSE LET res == Select(ld.meta.v, combined_filter.expr) IN
                        IF Len(res) = 0
                        THEN [meta |-> ld.meta, kind |-> "FinamObjectNotFoundError", rows |-> <<>>]
                        ELSE [meta |-> ld.meta, kind |-> "ok", rows |-> res]

\* The calls ExporterMeta.lookup(q) makes to the metadata fetcher: none when
\* the query is rejected before self._load().
MetaFetches(m, q, src) == IF ~AnySelector(q) THEN <<>> ELSE LoadFetches(m, src)

(***************************************************************************)
(* Response texts                                                          *)
(***************************************************************************)
ERROR_TOO_MUCH_WANTED == "ERROR_TOO_MUCH_WANTED"
ERROR_THROTTLING == "ERROR_THROTTLING"
ERROR_ALREADY_IN_PROGRESS == "ERROR_ALREADY_IN_PROGRESS"
Markers == {ERROR_TOO_MUCH_WANTED, ERROR_THROTTLING, ERROR_ALREADY_IN_PROGRESS}

EMPTY_RESULT_NOT_TICKS ==
    <<"<DATE>", ";", "<TIME>", ";", "<OPEN>", ";", "<HIGH>", ";", "<LOW>", ";",
      "<CLOSE>", ";", "<VOL>">>
EMPTY_RESULT_TICKS ==
    <<"<TICKER>", ";", "<PER>", ";", "<DATE>", ";", "<TIME>", ";", "<LAST>", ";", "<VOL>">>

HeaderFields ==
    {"<DATE>", "<TIME>", "<OPEN>", "<HIGH>", "<LOW>", "<CLOSE>", "<VOL>",
     "<TICKER>", "<PER>", "<LAST>"}

\* The characters of '<>;' a token holds.
Chars(tok) ==
    IF tok \in HeaderFields THEN {"<", ">"}
    ELSE IF tok \in {"<", ">", ";"} THEN {tok}
    ELSE {}

\* `msg in data` for one of the provider messages, `c in data` for a character.
MsgIn(msg, txt) == \E k \in 1..Len(txt) : txt[k] = msg
CharIn(c, txt) == \E k \in 1..Len(txt) : c \in Chars(txt[k])

\* A variant of _postprocess that swaps the two placeholders.
_postprocess_swapped(txt, tf) ==
    IF txt = <<>>
    THEN IF tf = "TICKS" THEN EMPTY_RESULT_NOT_TICKS ELSE EMPTY_RESULT_TICKS
    ELSE txt

\* Exporter._postprocess
_postprocess(txt, tf) ==
    IF txt = <<>>
    THEN IF tf = "TICKS" THEN EMPTY_RESULT_TICKS ELSE EMPTY_RESULT_NOT_TICKS
    ELSE txt

\* A variant of _sanity_check that looks for the retryable message first.
_sanity_check_in_progress_first(txt) ==
    IF MsgIn(ERROR_ALREADY_IN_PROGRESS, txt) THEN "FinamAlreadyInProgressError"
    ELSE IF MsgIn(ERROR_TOO_MUCH_WANTED, txt) THEN "FinamTooLongTimeframeError"
    ELSE IF MsgIn(ERROR_THROTTLING, txt) THEN "FinamThrottlingError"
    ELSE IF ~(\A c \in {"<", ">", ";"} : CharIn(c, txt)) THEN "FinamParsingError"
    ELSE "none"

\* A variant of _sanity_check that accepts a text holding any one of '<>;'.
_sanity_check_any_char(txt) ==
    IF MsgIn(ERROR_TOO_MUCH_WANTED, txt) THEN "FinamTooLongTimeframeError"
    ELSE IF MsgIn(ERROR_THROTTLING, txt) THEN "FinamThrottlingError"
    ELSE IF MsgIn(ERROR_ALREADY_IN_PROGRESS, txt) THEN "FinamAlreadyInProgressError"
    ELSE IF ~(\E c \in {"<", ">", ";"} : CharIn(c, txt)) THEN "FinamParsingError"
    ELSE "none"

\* Exporter._sanity_check: the exception raised, or "none".
_sanity_check(txt) ==
    IF MsgIn(ERROR_TOO_MUCH_WANTED, txt) THEN "FinamTooLongTimeframeError"
    ELSE IF MsgIn(ERROR_THROTTLING, txt) THEN "FinamThrottlingError"
    ELSE IF MsgIn(ERROR_ALREADY_IN_PROGRESS, txt) THEN "FinamAlreadyInProgressError"
    ELSE IF ~(\A c \in {"<", ">", ";"} : CharIn(c, txt)) THEN "FinamParsingError"
    ELSE "none"

\* The pieces of text between occurrences of sep.
RECURSIVE Split(_, _)
Split(text, sep) ==
    IF ~(\E k \in 1..Len(text) : text[k] = sep) THEN <<text>>
    ELSE LET k == CHOOSE k \in 1..Len(text) :
                      text[k] = sep /\ \A j \in 1..(k - 1) : text[j] # sep
         IN  <<SubSeq(text, 1, k - 1)>> \o Split(SubSeq(text, k + 1, Len(text)), sep)

\* pd.read_csv(StringIO(data), sep=';') on a text of the export format (the
\* first row is no wider than the header): the first non-blank line is the
\* header, every later non-blank line is a row, and the frame gets the
\* positional index 0, 1, 2, ...  A later row of more fields than the header
\* is a ParserError.
Lines(txt) ==
    LET all == Split(txt, "NL")
    IN  Select(all, [k \in 1..Len(all) |-> all[k] # <<>>])

read_csv(txt) ==
    LET lines == Lines(txt)
        width == Len(Split(lines[1], ";"))
        body == [k \in 1..(Len(lines) - 1) |-> Split(lines[k + 1], ";")]
    IN  IF \E k \in 1..Len(body) : Len(body[k]) > width
        THEN [err |-> "ParserError", frame |-> <<>>]
        ELSE [err |-> "none",
              frame |-> [k \in 1..Len(body) |-> [index |-> k - 1, fields |-> body[k]]]]

\* chunk_df.sort_index(): rows in ascending index order, equal indexes in
\* their order of appearance.
RECURSIVE InsertByIndex(_, _)
InsertByIndex(r, sorted) ==
    IF sorted = <<>> THEN <<r>>
    ELSE IF Head(sorted).index <= r.index
         THEN <<Head(sorted)>> \o InsertByIndex(r, Tail(sorted))
         ELSE <<r>> \o sorted

RECURSIVE sort_index(_)
sort_index(frame) ==
    IF frame = <<>> THEN <<>>
    ELSE InsertByIndex(frame[Len(frame)], sort_index(SubSeq(frame, 1, Len(frame) - 1)))

\* A variant of concat that puts the new chunk first.
concat_reversed(acc, chunk_df) ==
    IF ~acc.some THEN Some(chunk_df) ELSE Some(chunk_df \o acc.v)

\* df = chunk_df if df is None else pd.concat((df, chunk_df))
concat(acc, chunk_df) == IF ~acc.some THEN Some(chunk_df) ELSE Some(acc.v \o chunk_df)

\* What the txt fetcher may answer.
CsvA == <<"<DATE>", ";", "<VOL>", "NL", "2", ";", "1", "NL", "1", ";", "3">>
CsvB == <<"<DATE>", ";", "<VOL>", "NL", "3", ";", "3">>
CsvWide == <<"<DATE>", ";", "<VOL>", "NL", "1", ";", "2", "NL", "1", ";", "2", ";", "3">>

MarkerTexts ==
    { <<m>> : m \in Markers } \cup
    { t \in { <<m1, m2>> : m1 \in Markers, m2 \in Markers } : t[1] # t[2] }

\* Texts without a provider message that lack some of '<', '>', ';', and one
\* that holds all three.
CharTexts ==
    { <<"1">>, <<"<", "1">>, <<">", "1">>, <<"<", ";">>, <<">", ";">>, <<"<", ">", ";">> }

Bodies ==
    {<<>>, CsvA, CsvB, CsvWide, <<"1", ";", "2">>, <<"<DATE>", "NL", "1">>}
    \cup CharTexts
    \cup MarkerTexts
    \cup { <<ERROR_ALREADY_IN_PROGRESS, "NL">> \o CsvA }

Timeframes == {"TICKS", "DAILY"}

\* What a call of self._fetcher(url) does: raise FinamDownloadError
\* (fetch_url_urllib on IOError or UnicodeDecodeError) or return a text.
FetchResults ==
    {[exc |-> "FinamDownloadError", text |-> <<>>]}
    \cup { [exc |-> "none", text |-> t] : t \in Bodies }

(***************************************************************************)
(* Exporter.download                                                       *)
(***************************************************************************)
\* Entries of log.
Fetch(c, o) == [ev |-> "fetch", chunk |-> c, secs |-> 0, outcome |-> o]
Sleep(d) == [ev |-> "sleep", chunk |-> 0, secs |-> d, outcome |-> "none"]

\* split_interval(start_date, end_date, timeframe.value) for a range that
\* takes n requests: the n chunks in ascending date order.
split_interval(n) == [k \in 1..n |-> k]

\* self._meta.lookup(id_=id_, market=market)
DownloadQuery(i, m) ==
    [id_ |-> One(i), code |-> Absent, name |-> Absent, market |-> One(m),
     name_comparator |-> CONTAINS, code_comparator |-> EQUALS]

\* A variant of DuplicateItems that only rejects an empty result.
DuplicateItemsEmptyOnly(its) == Len(its) < 1

\* if len(items) != 1: raise FinamDownloadError
DuplicateItems(its) == Len(its) # 1

\* A variant of ChunkPause that also sleeps before the first chunk.
ChunkPauseAlways(cnt, d) == IF cnt > 0 THEN <<Sleep(d)>> ELSE <<>>

\* if counter > 1: time.sleep(delay)
ChunkPause(cnt, d) == IF cnt > 1 THEN <<Sleep(d)>> ELSE <<>>

\* What leaves the fetch and the try block around _sanity_check: the
\* exception of the fetcher, else of _sanity_check, else "none".
Outcome(fr, tf) ==
    IF fr.exc # "none" THEN fr.exc ELSE _sanity_check(_postprocess(fr.text, tf))

\* Variants of Caught that also catch the throttling error, the fetcher's error.
CaughtThrottling(exc) ==
    exc \in {"FinamAlreadyInProgressError", "FinamThrottlingError"}
CaughtDownloadError(exc) ==
    exc \in {"FinamAlreadyInProgressError", "FinamDownloadError"}

\* except FinamAlreadyInProgressError
Caught(exc) == exc = "FinamAlreadyInProgressError"

\* A variant of RetriesAtChunkStart that carries the count over.
RetriesCarriedOver(r) == r

\* retries = 0, before the while loop of each chunk
RetriesAtChunkStart(r) == 0

\* A variant of RetryAllowed that never gives up.
RetryAlways(r, mx) == TRUE

\* if retries <= max_in_progress_retries
RetryAllowed(r, mx) == r <= mx

\* A variant of RetryPause that retries at once.
RetryNoPause(d) == <<>>

\* time.sleep(delay) before `continue`
RetryPause(d) == <<Sleep(d)>>

Ids == 0..2
Markets == 0..2
Delays == {1, 2}

SetArgs(i, m, d, r, tf) ==
    /\ id_' = i
    /\ market' = m
    /\ delay' = d
    /\ max_in_progress_retries' = r
    /\ timeframe' = tf

\* download(): the lookup raises (ValueError, a load error or
\* FinamObjectNotFoundError).
DownloadLookupRaises ==
    /\ pc = "idle"
    /\ \E i \in Ids, m \in Markets, d \in Delays, r \in 0..MaxRetries,
           tf \in Timeframes, src \in MetaSources :
            LET res == lookup(meta, DownloadQuery(i, m), src) IN
            /\ res.kind # "ok"
            /\ SetArgs(i, m, d, r, tf)
            /\ meta' = res.meta
            /\ metalog' = MetaFetches(meta, DownloadQuery(i, m), src)
            /\ error' = res.kind
            /\ pc' = "raised"
            /\ UNCHANGED <<items, chunks, counter, retries, data, df, result, log,
                           parsed, query, found,
                           fetched, held, webdriverVars>>

\* download(): the lookup returns and len(items) != 1.
DownloadDuplicate ==
    /\ pc = "idle"
    /\ \E i \in Ids, m \in Markets, d \in Delays, r \in 0..MaxRetries,
           tf \in Timeframes, src \in MetaSources :
            LET res == lookup(meta, DownloadQuery(i, m), src) IN
            /\ res.kind = "ok"
            /\ DuplicateItems(res.rows)
            /\ SetArgs(i, m, d, r, tf)
            /\ meta' = res.meta
            /\ metalog' = MetaFetches(meta, DownloadQuery(i, m), src)
            /\ items' = Some(res.rows)
            /\ error' = "FinamDownloadError"
            /\ pc' = "raised"
            /\ UNCHANGED <<chunks, counter, retries, data, df, result, log, parsed,
                           query, found,
                           fetched, held, webdriverVars>>

\* download(): one item found; the range is split and the loop is entered.
DownloadSplit ==
    /\ pc = "idle"
    /\ \E i \in Ids, m \in Markets, d \in Delays, r \in 0..MaxRetries,
           tf \in Timeframes, src \in MetaSources, n \in 1..MaxChunks :
            LET res == lookup(meta, DownloadQuery(i, m), src) IN
            /\ res.kind = "ok"
            /\ ~DuplicateItems(res.rows)
            /\ SetArgs(i, m, d, r, tf)
            /\ meta' = res.meta
            /\ metalog' = MetaFetches(meta, DownloadQuery(i, m), src)
            /\ items' = Some(res.rows)
            /\ df' = NONE
            /\ chunks' = split_interval(n)
            /\ counter' = 0
            /\ pc' = "for"
            /\ UNCHANGED <<retries, data, error, result, log, parsed, query, found,
                           fetched, held, webdriverVars>>

\* Top of the for loop: next chunk, pacing sleep, url built, retries = 0.
NextChunk ==
    /\ pc = "for"
    /\ counter < Len(chunks)
    /\ counter' = counter + 1
    /\ log' = log \o ChunkPause(counter + 1, delay)
    /\ retries' = RetriesAtChunkStart(retries)
    /\ pc' = "fetch"
    /\ UNCHANGED <<meta, id_, market, delay, max_in_progress_retries, timeframe,
                   items, chunks, data, df, error, result, parsed, query, found,
                           fetched, metalog, held, webdriverVars>>

\* The fetcher raises: nothing in download() catches it.
FetcherRaises ==
    /\ pc = "fetch"
    /\ \E fr \in FetchResults :
            LET o == Outcome(fr, timeframe) IN
            /\ fr.exc # "none"
            /\ ~Caught(o)
            /\ fetched' = NONE
            /\ log' = Append(log, Fetch(counter, o))
            /\ error' = o
            /\ pc' = "raised"
            /\ UNCHANGED <<meta, id_, market, delay, max_in_progress_retries, timeframe,
                           items, chunks, counter, retries, data, df, result, parsed,
                           query, found,
                           metalog, held, webdriverVars>>

\* _sanity_check raises an exception other than the caught one.
SanityCheckRaises ==
    /\ pc = "fetch"
    /\ \E fr \in FetchResults :
            LET o == Outcome(fr, timeframe) IN
            /\ fr.exc = "none"
            /\ o # "none"
            /\ ~Caught(o)
            /\ fetched' = Some(fr.text)
            /\ data' = _postprocess(fr.text, timeframe)
            /\ log' = Append(log, Fetch(counter, o))
            /\ error' = o
            /\ pc' = "raised"
            /\ UNCHANGED <<meta, id_, market, delay, max_in_progress_retries, timeframe,
                           items, chunks, counter, retries, df, result, parsed, query,
                           found,
                           metalog, held, webdriverVars>>

\* The caught exception, retries left: count, sleep, fetch again.
Retry ==
    /\ pc = "fetch"
    /\ \E fr \in FetchResults :
            LET o == Outcome(fr, timeframe) IN
            /\ Caught(o)
            /\ RetryAllowed(retries, max_in_progress_retries)
            /\ fetched' = (IF fr.exc = "none" THEN Some(fr.text) ELSE NONE)
            /\ data' = (IF fr.exc = "none" THEN _postprocess(fr.text, timeframe) ELSE data)
            /\ retries' = retries + 1
            /\ log' = Append(log, Fetch(counter, o)) \o RetryPause(delay)
            /\ UNCHANGED <<meta, pc, id_, market, delay, max_in_progress_retries,
                           timeframe, items, chunks, counter, df, error, result, parsed,
                           query, found,
                           metalog, held, webdriverVars>>

\* The caught exception, no retries left: re-raised.
RetriesExhausted ==
    /\ pc = "fetch"
    /\ \E fr \in FetchResults :
            LET o == Outcome(fr, timeframe) IN
            /\ Caught(o)
            /\ ~RetryAllowed(retries, max_in_progress_retries)
            /\ fetched' = (IF fr.exc = "none" THEN Some(fr.text) ELSE NONE)
            /\ data' = (IF fr.exc = "none" THEN _postprocess(fr.text, timeframe) ELSE data)
            /\ log' = Append(log, Fetch(counter, o))
            /\ error' = o
            /\ pc' = "raised"
            /\ UNCHANGED <<meta, id_, market, delay, max_in_progress_retries, timeframe,
                           items, chunks, counter, retries, df, result, parsed, query,
                           found,
                           metalog, held, webdriverVars>>

\* The text passes _sanity_check and read_csv: the chunk's frame is sorted
\* by index and concatenated to df.
ChunkParsed ==
    /\ pc = "fetch"
    /\ \E fr \in FetchResults :
            LET o == Outcome(fr, timeframe)
                text == _postprocess(fr.text, timeframe)
                chunk_df == read_csv(text)
            IN
            /\ o = "none"
            /\ chunk_df.err = "none"
            /\ fetched' = Some(fr.text)
            /\ data' = text
            /\ log' = Append(log, Fetch(counter, o))
            /\ parsed' = Append(parsed, [chunk |-> counter, text |-> text])
            /\ df' = concat(df, sort_index(chunk_df.frame))
            /\ pc' = "for"
            /\ UNCHANGED <<meta, id_, market, delay, max_in_progress_retries, timeframe,
                           items, chunks, counter, retries, error, result, query, found,
                           metalog, held, webdriverVars>>

\* The text passes _sanity_check and read_csv raises ParserError.
ParserError ==
    /\ pc = "fetch"
    /\ \E fr \in FetchResults :
            LET o == Outcome(fr, timeframe)
                text == _postprocess(fr.text, timeframe)
                chunk_df == read_csv(text)
            IN
            /\ o = "none"
            /\ chunk_df.err # "none"
            /\ fetched' = Some(fr.text)
            /\ data' = text
            /\ log' = Append(log, Fetch(counter, chunk_df.err))
            /\ parsed' = Append(parsed, [chunk |-> counter, text |-> text])
            /\ error' = "FinamParsingError"
            /\ pc' = "raised"
            /\ UNCHANGED <<meta, id_, market, delay, max_in_progress_retries, timeframe,
                           items, chunks, counter, retries, df, result, query, found,
                           metalog, held, webdriverVars>>

\* return df
Return ==
    /\ pc = "for"
    /\ counter = Len(chunks)
    /\ result' = df
    /\ pc' = "returned"
    /\ UNCHANGED <<meta, id_, market, delay, max_in_progress_retries, timeframe,
                   items, chunks, counter, retries, data, df, error, log, parsed,
                   query, found,
                           fetched, metalog, held, webdriverVars>>

Init ==
    /\ meta = NONE
    /\ pc = "idle"
    /\ id_ = 0
    /\ market = 0
    /\ delay = 1
    /\ max_in_progress_retries = 0
    /\ timeframe = "DAILY"
    /\ items = NONE
    /\ chunks = <<>>
    /\ counter = 0
    /\ retries = 0
    /\ data = <<>>
    /\ df = NONE
    /\ error = "none"
    /\ result = NONE
    /\ log = <<>>
    /\ parsed = <<>>
    /\ query = NONE
    /\ found = [kind |-> "none", rows |-> <<>>]
    /\ fetched = NONE
    /\ metalog = <<>>
    /\ held = NoFrame
    /\ driver = 0
    /\ pages_to_load_cur = <<>>
    /\ quits = <<>>
    /\ gets = <<>>
    /\ outcomes = <<>>

Next ==
    \/ DownloadLookupRaises
    \/ DownloadDuplicate
    \/ DownloadSplit
    \/ NextChunk
    \/ FetcherRaises
    \/ SanityCheckRaises
    \/ Retry
    \/ RetriesExhausted
    \/ ChunkParsed
    \/ ParserError
    \/ Return

Spec == Init /\ [][Next]_vars

(***************************************************************************)
(* ExporterMeta.lookup called on its own                                   *)
(***************************************************************************)
\* Arguments a caller may pass.  A comparator is passed (<<c>>) or left to
\* its default (<<>>).
IdArgs == {Absent, One(0), One(1), One(2), Many(<<1, 2>>), Many(<<>>)}
MarketArgs == {Absent, One(0), One(1), One(2), Many(<<1, 2>>)}
CodeArgs == {Absent, One(<<>>), One(a), One(ab), Many(<<a, b>>), Many(<<>>)}
NameArgs == {Absent, One(<<>>), One(b), One(ba), Many(<<a, bb>>), Many(<<>>)}
ComparatorArgs == {<<>>} \cup { <<c>> : c \in LookupComparator }

LookupArgs ==
    [id_ : IdArgs, code : CodeArgs, name : NameArgs, market : MarketArgs,
     name_comparator : ComparatorArgs, code_comparator : ComparatorArgs]

\* The signature of lookup: name_comparator=LookupComparator.CONTAINS,
\* code_comparator=LookupComparator.EQUALS.
Bind(args) ==
    [id_ |-> args.id_, code |-> args.code, name |-> args.name, market |-> args.market,
     name_comparator |->
        IF args.name_comparator = <<>> THEN CONTAINS ELSE args.name_comparator[1],
     code_comparator |->
        IF args.code_comparator = <<>> THEN EQUALS ELSE args.code_comparator[1]]

\* A lookup is about to be called with some arguments, on a catalog that is
\* not loaded yet or was loaded by an earlier call.
InitLookup ==
    /\ meta \in {NONE, Some(ParseJs(MetaFileA))}
    /\ query \in { Some(args) : args \in LookupArgs }
    /\ found = [kind |-> "none", rows |-> <<>>]
    /\ pc = "idle"
    /\ id_ = 0
    /\ market = 0
    /\ delay = 1
    /\ max_in_progress_retries = 0
    /\ timeframe = "DAILY"
    /\ items = NONE
    /\ chunks = <<>>
    /\ counter = 0
    /\ retries = 0
    /\ data = <<>>
    /\ df = NONE
    /\ error = "none"
    /\ result = NONE
    /\ log = <<>>
    /\ parsed = <<>>
    /\ fetched = NONE
    /\ metalog = <<>>
    /\ held = NoFrame
    /\ driver = 0
    /\ pages_to_load_cur = <<>>
    /\ quits = <<>>
    /\ gets = <<>>
    /\ outcomes = <<>>

LookupReturns ==
    /\ found.kind = "none"
    /\ \E src \in MetaSources :
         LET res == lookup(meta, Bind(query.v), src) IN
         /\ res.kind = "ok"
         /\ meta' = res.meta
         /\ metalog' = MetaFetches(meta, Bind(query.v), src)
         /\ found' = [kind |-> res.kind, rows |-> res.rows]
    /\ UNCHANGED <<pc, id_, market, delay, max_in_progress_retries, timeframe, items,
                   chunks, counter, retries, data, df, error, result, log, parsed,
                   query,
                           fetched, held, webdriverVars>>

LookupRaises ==
    /\ found.kind = "none"
    /\ \E src \in MetaSources :
         LET res == lookup(meta, Bind(query.v), src) IN
         /\ res.kind # "ok"
         /\ meta' = res.meta
         /\ metalog' = MetaFetches(meta, Bind(query.v), src)
         /\ found' = [kind |-> res.kind, rows |-> res.rows]
    /\ UNCHANGED <<pc, id_, market, delay, max_in_progress_retries, timeframe, items,
                   chunks, counter, retries, data, df, error, result, log, parsed,
                   query,
                           fetched, held, webdriverVars>>

NextLookup == LookupReturns \/ LookupRaises

SpecLookup == InitLookup /\ [][NextLookup]_vars

(***************************************************************************)
(* Sequences of calls on one Exporter: download, lookup, the meta property *)
(***************************************************************************)
\* A variant of MetaProperty that hands out the cached frame itself.
MetaPropertyNoCopy(m) == IF m.some THEN Frame(TRUE, m.v) ELSE NoFrame

\* ExporterMeta.meta: self._meta.copy(deep=True), None while nothing is loaded.
MetaProperty(m) == IF m.some THEN Frame(FALSE, m.v) ELSE NoFrame

\* res = self._meta[combined_filter]; return res: indexing a frame by a
\* boolean column builds a new frame.
LookupResult(rows) == Frame(FALSE, rows)

\* Arguments of the lookups made between downloads.
CallArgs ==
    [id_ : {Absent, One(1)}, code : {Absent, One(ab)}, name : {Absent},
     market : {Absent, One(2)}, name_comparator : {<<>>}, code_comparator : {<<>>}]

CallLookupReturns ==
    /\ pc = "idle"
    /\ \E args \in CallArgs, src \in MetaSources :
         LET res == lookup(meta, Bind(args), src) IN
         /\ res.kind = "ok"
         /\ meta' = res.meta
         /\ metalog' = MetaFetches(meta, Bind(args), src)
         /\ query' = Some(args)
         /\ found' = [kind |-> res.kind, rows |-> res.rows]
         /\ held' = LookupResult(res.rows)
    /\ pc' = "looked"
    /\ UNCHANGED <<id_, market, delay, max_in_progress_retries, timeframe, items,
                   chunks, counter, retries, data, df, error, result, log, parsed,
                   fetched, webdriverVars>>

CallLookupRaises ==
    /\ pc = "idle"
    /\ \E args \in CallArgs, src \in MetaSources :
         LET res == lookup(meta, Bind(args), src) IN
         /\ res.kind # "ok"
         /\ meta' = res.meta
         /\ metalog' = MetaFetches(meta, Bind(args), src)
         /\ query' = Some(args)
         /\ found' = [kind |-> res.kind, rows |-> res.rows]
    /\ pc' = "looked"
    /\ UNCHANGED <<id_, market, delay, max_in_progress_retries, timeframe, items,
                   chunks, counter, retries, data, df, error, result, log, parsed,
                   fetched, held, webdriverVars>>

\* The caller reads the meta property.
ReadMeta ==
    /\ pc = "idle"
    /\ held' = MetaProperty(meta)
    /\ pc' = "read"
    /\ UNCHANGED <<meta, id_, market, delay, max_in_progress_retries, timeframe, items,
                   chunks, counter, retries, data, df, error, result, log, parsed,
                   query, found, fetched, metalog, webdriverVars>>

\* The caller drops every row of the frame it was handed, in place.  The
\* cache loses its rows too when the frame is the cached object.
Mutate ==
    /\ pc \in {"looked", "read"}
    /\ held.some
    /\ held.v # <<>>
    /\ held' = [held EXCEPT !.v = <<>>]
    /\ meta' = IF held.alias THEN Some(<<>>) ELSE meta
    /\ pc' = "mutated"
    /\ UNCHANGED <<id_, market, delay, max_in_progress_retries, timeframe, items,
                   chunks, counter, retries, data, df, error, result, log, parsed,
                   query, found, fetched, metalog, webdriverVars>>

\* The call has ended and the caller is about to make another one on the
\* same Exporter.  What is recorded of the ended call is dropped; the cache
\* stays.  retries is left as the ended invocation left it, so that the
\* value a later invocation counts from is the one it assigns itself.
Restart ==
    /\ pc \in {"returned", "raised", "looked", "read", "mutated"}
    /\ pc' = "idle"
    /\ id_' = 0
    /\ market' = 0
    /\ delay' = 1
    /\ max_in_progress_retries' = 0
    /\ timeframe' = "DAILY"
    /\ items' = NONE
    /\ chunks' = <<>>
    /\ counter' = 0
    /\ data' = <<>>
    /\ df' = NONE
    /\ error' = "none"
    /\ result' = NONE
    /\ log' = <<>>
    /\ parsed' = <<>>
    /\ query' = NONE
    /\ found' = [kind |-> "none", rows |-> <<>>]
    /\ fetched' = NONE
    /\ metalog' = <<>>
    /\ held' = NoFrame
    /\ UNCHANGED <<meta, retries, webdriverVars>>

NextCalls ==
    \/ Next
    \/ CallLookupReturns
    \/ CallLookupRaises
    \/ ReadMeta
    \/ Mutate
    \/ Restart

SpecCalls == Init /\ [][NextCalls]_vars

\* One download() under the assumption that every call of the fetcher and
\* of time.sleep returns: a step that can be taken is taken.
SpecFair == Init /\ [][Next]_vars /\ WF_vars(Next)

(***************************************************************************)
(* FetchMetaWebriver and fetch_url_webdriver                               *)
(*                                                                         *)
(* Drivers are numbered in the order of their creation; driver = 0 is the  *)
(* class attribute before any driver was created (None).                   *)
(* pages_to_load_cur and quits are indexed by driver.                      *)
(***************************************************************************)
\* use_fetcher_meta adds one per decorated class: ExporterMetaPage and
\* ExporterMetaFile.
pages_to_load_max == 2

\* if cls.driver and cls.pages_to_load_cur[id(cls.driver)] > 0: return self
Reuse(drv, cur) == drv # 0 /\ cur[drv] > 0

\* FetchMetaWebriver.__enter__: the class state after it.
Enter(drv, cur, qs) ==
    IF Reuse(drv, cur) THEN [driver |-> drv, cur |-> cur, quits |-> qs]
    ELSE [driver |-> Len(qs) + 1,
          cur |-> Append(cur, pages_to_load_max),
          quits |-> Append(qs, 0)]

\* A variant of AllPagesLoaded that never holds.
AllPagesLoadedNever(n) == n < 0

\* if cls.pages_to_load_cur[id(self.driver)] == 0
AllPagesLoaded(n) == n = 0

\* FetchMetaWebriver.__exit__: the counter of the driver is decremented, the
\* driver is quit if the block raised, and quit if no page is left.
Exit(st, raised) ==
    LET d == st.driver
        left == st.cur[d] - 1
        n == (IF raised THEN 1 ELSE 0) + (IF AllPagesLoaded(left) THEN 1 ELSE 0)
    IN  [driver |-> d,
         cur |-> [st.cur EXCEPT ![d] = left],
         quits |-> [st.quits EXCEPT ![d] = @ + n]]

\* Entry of gets: the driver get(url) was called on and whether quit() had
\* been called on it before.
Get(st) == [driver |-> st.driver, quit |-> st.quits[st.driver] > 0]

\* fetch_url_webdriver returns the page: the driver loads it, the block is
\* left without exception.  A driver that was quit loads nothing.
WebdriverFetchReturns ==
    /\ Len(outcomes) < MaxFetches
    /\ LET st == Enter(driver, pages_to_load_cur, quits)
           after == Exit(st, FALSE)
       IN  /\ st.quits[st.driver] = 0
           /\ gets' = Append(gets, Get(st))
           /\ driver' = after.driver
           /\ pages_to_load_cur' = after.cur
           /\ quits' = after.quits
    /\ outcomes' = Append(outcomes, "ok")
    /\ UNCHANGED <<meta, pc, id_, market, delay, max_in_progress_retries, timeframe,
                   items, chunks, counter, retries, data, df, error, result, log,
                   parsed, query, found, fetched, metalog, held>>

\* An exception is raised inside the with block (get, the wait or the
\* re-encoding of the page source): __exit__ runs with it and it propagates.
WebdriverFetchRaises ==
    /\ Len(outcomes) < MaxFetches
    /\ LET st == Enter(driver, pages_to_load_cur, quits)
           after == Exit(st, TRUE)
       IN  /\ gets' = Append(gets, Get(st))
           /\ driver' = after.driver
           /\ pages_to_load_cur' = after.cur
           /\ quits' = after.quits
    /\ outcomes' = Append(outcomes, "raised")
    /\ UNCHANGED <<meta, pc, id_, market, delay, max_in_progress_retries, timeframe,
                   items, chunks, counter, retries, data, df, error, result, log,
                   parsed, query, found, fetched, metalog, held>>

\* __enter__ raises while it creates the driver: nothing is assigned and
\* __exit__ does not run.
WebdriverEnterRaises ==
    /\ Len(outcomes) < MaxFetches
    /\ ~Reuse(driver, pages_to_load_cur)
    /\ outcomes' = Append(outcomes, "no_driver")
    /\ UNCHANGED <<meta, pc, id_, market, delay, max_in_progress_retries, timeframe,
                   items, chunks, counter, retries, data, df, error, result, log,
                   parsed, query, found, fetched, metalog, held, driver,
                   pages_to_load_cur, quits, gets>>

NextWebdriver ==
    \/ WebdriverFetchReturns
    \/ WebdriverFetchRaises
    \/ WebdriverEnterRaises

SpecWebdriver == Init /\ [][NextWebdriver]_vars

(***************************************************************************)
(* Properties                                                              *)
(***************************************************************************)
InProgress == "FinamAlreadyInProgressError"

\* Positions in log of the fetches made for chunk c.
FetchIdx(c) == { k \in 1..Len(log) : log[k].ev = "fetch" /\ log[k].chunk = c }
InProgressIdx(c) == { k \in FetchIdx(c) : log[k].outcome = InProgress }
SleepIdx == { k \in 1..Len(log) : log[k].ev = "sleep" }
LastIsFetch(o) == log # <<>> /\ log[Len(log)] = Fetch(counter, o)

\* C1 (as claimed): every chunk is re-fetched at most max_in_progress_retries
\* times after its first fetch, and the 'already in progress' answer that
\* follows the last of those retries ends the download with
\* FinamAlreadyInProgressError.
C1_AtMostMaxRetries ==
    \A c \in 1..Len(chunks) :
        /\ Cardinality(FetchIdx(c)) <= max_in_progress_retries + 1
        /\ (pc = "raised" /\ error = InProgress /\ counter = c)
              => Cardinality(InProgressIdx(c)) = max_in_progress_retries + 1

\* C2: when the first chunk is answered 'already in progress' on attempts
\* 1..max_in_progress_retries and with valid data on the next attempt, the
\* download is still running after each of those answers, every one of them
\* is followed by a sleep of delay seconds and then by the next fetch, and
\* the rows of the chunk are the rows of the last text fetched and no others.
C2_RetriedThenSucceeds ==
    LET mx == max_in_progress_retries
        n1 == Cardinality(FetchIdx(1))
    IN  /\ (counter = 1 /\ n1 >= 1 /\ n1 <= mx /\ InProgressIdx(1) = FetchIdx(1))
              => pc = "fetch" /\ error = "none" /\ retries = n1
        /\ (n1 = mx + 1 /\ Cardinality(InProgressIdx(1)) = mx
                /\ \E k \in FetchIdx(1) : log[k].outcome = "none")
              => /\ \A j \in 1..mx :
                       log[2 * j - 1] = Fetch(1, InProgress) /\ log[2 * j] = Sleep(delay)
                 /\ log[2 * mx + 1] = Fetch(1, "none")
                 /\ ~(pc = "raised" /\ counter = 1)
                 /\ parsed # <<>> /\ parsed[1].chunk = 1 /\ df.some
                 /\ LET rows == read_csv(parsed[1].text).frame
                    IN  /\ Len(df.v) >= Len(rows)
                        /\ SubSeq(df.v, 1, Len(rows)) = rows
                        /\ counter = 1 => df.v = rows /\ data = parsed[1].text
                        /\ (pc = "returned" /\ Len(chunks) = 1) => result = Some(rows)

C2_Witness ==
    /\ pc = "returned"
    /\ max_in_progress_retries = MaxRetries
    /\ Cardinality(InProgressIdx(1)) = MaxRetries
    /\ Cardinality(FetchIdx(1)) = MaxRetries + 1
    /\ Len(read_csv(parsed[1].text).frame) = 2

\* C3: a response classified as too-long timeframe, throttling or malformed
\* ends the download at once with that error: the fetch that got it is the
\* last call made, no sleep follows, and nothing is returned.
FatalErrors == {"FinamTooLongTimeframeError", "FinamThrottlingError", "FinamParsingError"}

C3_FatalAbortsAtOnce ==
    /\ \A k \in 1..Len(log) :
          (log[k].ev = "fetch" /\ log[k].outcome \in FatalErrors)
             => /\ k = Len(log)
                /\ pc = "raised"
                /\ error = log[k].outcome
                /\ result = NONE
    /\ (data # <<>> /\ _sanity_check(data) \in FatalErrors)
          => /\ pc = "raised"
             /\ error = _sanity_check(data)
             /\ LastIsFetch(error)
             /\ result = NONE

C3_Witness ==
    /\ pc = "raised"
    /\ error = "FinamThrottlingError"
    /\ counter = 2
    /\ df.some /\ Len(df.v) > 0
    /\ result = NONE

\* C4: a FinamDownloadError raised by the fetcher is not retried: the failing
\* fetch is the last call made, it is not counted as a retry, no sleep
\* follows it, the error reaches the caller and nothing is returned.
C4_TransportErrorNotRetried ==
    \A k \in 1..Len(log) :
        (log[k].ev = "fetch" /\ log[k].outcome = "FinamDownloadError")
           => /\ k = Len(log)
              /\ pc = "raised"
              /\ error = "FinamDownloadError"
              /\ retries = Cardinality(InProgressIdx(counter))
              /\ result = NONE

C4_Witness ==
    /\ pc = "raised"
    /\ LastIsFetch("FinamDownloadError")
    /\ counter = 2
    /\ retries = 1

\* C5: fetches are made chunk after chunk in the order of the chunk list,
\* the first fetch of a chunk coming after the previous chunk's text was
\* accepted and parsed, and the frame returned is the chunks' parsed rows
\* concatenated in chunk order, each chunk's rows in the order of its text.
RECURSIVE RowsUpTo(_)
RowsUpTo(c) ==
    IF c = 0 THEN <<>> ELSE RowsUpTo(c - 1) \o read_csv(parsed[c].text).frame

C6_PacingBetweenChunks ==
    (\A k \in 1..Len(log) : log[k].ev = "fetch" => log[k].outcome = "none")
       => /\ \A k \in 1..Len(log) :
                IF k % 2 = 1 THEN log[k] = Fetch((k + 1) \div 2, "none")
                ELSE log[k] = Sleep(delay)
          /\ pc = "returned" =>
                /\ Cardinality(UNION { FetchIdx(c) : c \in 1..Len(chunks) }) = Len(chunks)
                /\ Cardinality(SleepIdx) = Len(chunks) - 1

C6_Witness ==
    /\ pc = "returned"
    /\ Len(chunks) >= 2
    /\ \A k \in 1..Len(log) : log[k].ev = "fetch" => log[k].outcome = "none"

\* C7: when the lookup for (id_, market) returns a number of records other
\* than one the download fails with FinamDownloadError before any fetch or
\* sleep, and the chunk loop is entered only when exactly one record of the
\* catalog has that id and market.
MatchIdx ==
    { k \in 1..Len(meta.v) : meta.v[k].id = id_ /\ meta.v[k].market = market }

C7_ExactlyOneItem ==
    pc # "idle" =>
        /\ (items.some /\ Len(items.v) # 1)
              => pc = "raised" /\ error = "FinamDownloadError" /\ log = <<>> /\ chunks = <<>>
        /\ items.some => meta.some /\ Len(items.v) = Cardinality(MatchIdx)
        /\ (meta.some /\ Cardinality(MatchIdx) > 1 /\ (id_ # 0 \/ market # 0))
              => pc = "raised" /\ error = "FinamDownloadError" /\ log = <<>>
        /\ (chunks # <<>> \/ log # <<>> \/ pc \in {"for", "fetch", "returned"})
              => meta.some /\ items.some /\ Cardinality(MatchIdx) = 1

C7_Witness ==
    /\ pc = "raised"
    /\ error = "FinamDownloadError"
    /\ items.some
    /\ Len(items.v) = 2
    /\ log = <<>>

\* C10: the classifier looks for the too-long message, then the throttling
\* message, then the in-progress message, and the first found decides: a
\* text holding the in-progress message together with one of the other two
\* ends the download with that fatal error, without sleep or retry.
C10_ClassifierPriority ==
    /\ (MsgIn(ERROR_TOO_MUCH_WANTED, data)
          /\ (MsgIn(ERROR_THROTTLING, data) \/ MsgIn(ERROR_ALREADY_IN_PROGRESS, data)))
          => /\ pc = "raised"
             /\ error = "FinamTooLongTimeframeError"
             /\ LastIsFetch("FinamTooLongTimeframeError")
             /\ retries = Cardinality(InProgressIdx(counter))
    /\ (~MsgIn(ERROR_TOO_MUCH_WANTED, data)
          /\ MsgIn(ERROR_THROTTLING, data) /\ MsgIn(ERROR_ALREADY_IN_PROGRESS, data))
          => /\ pc = "raised"
             /\ error = "FinamThrottlingError"
             /\ LastIsFetch("FinamThrottlingError")
             /\ retries = Cardinality(InProgressIdx(counter))

C10_Witness ==
    /\ pc = "raised"
    /\ data = <<ERROR_ALREADY_IN_PROGRESS, ERROR_THROTTLING>>
    /\ error = "FinamThrottlingError"
    /\ retries = 1

\* The comparator a field is matched under, and its test.
ComparatorOf(args, col) ==
    CASE col = "name" ->
            IF args.name_comparator = <<>> THEN CONTAINS ELSE args.name_comparator[1]
      [] col = "code" ->
            IF args.code_comparator = <<>> THEN EQUALS ELSE args.code_comparator[1]
      [] OTHER -> EQUALS

Holds(comparator, x, v) ==
    CASE comparator = EQUALS -> x = v
      [] comparator = STARTSWITH ->
            Len(v) <= Len(x) /\ \A k \in 1..Len(v) : x[k] = v[k]
      [] OTHER ->
            \E off \in 0..(Len(x) - Len(v)) : \A k \in 1..Len(v) : x[off + k] = v[k]

ArgOf(args, col) ==
    CASE col = "id" -> args.id_
      [] col = "code" -> args.code
      [] col = "name" -> args.name
      [] OTHER -> args.market

\* Record r has, for every field supplied, one of the values supplied for it.
Satisfies(r, args) ==
    \A col \in {"id", "code", "name", "market"} :
        ArgOf(args, col).k # "none" =>
            \E j \in 1..Len(ArgOf(args, col).vs) :
                Holds(ComparatorOf(args, col), r[col], ArgOf(args, col).vs[j])

SatisfyingIdx(args) == { k \in 1..Len(meta.v) : Satisfies(meta.v[k], args) }

NoneSupplied(args) ==
    /\ args.id_.k = "none"
    /\ args.code.k = "none"
    /\ args.name.k = "none"
    /\ args.market.k = "none"

\* C8 (as claimed): lookup raises the invalid-query error (ValueError) exactly
\* when none of id, code, name, market is supplied, and a query with a
\* supplied selector that matches no record of the loaded catalog raises
\* FinamObjectNotFoundError.
C8_InvalidQueryIffNoneSupplied ==
    found.kind # "none" =>
        /\ found.kind = "ValueError" <=> NoneSupplied(query.v)
        /\ (~NoneSupplied(query.v) /\ meta.some /\ SatisfyingIdx(query.v) = {})
              => found.kind = "FinamObjectNotFoundError"

\* C9: the records lookup returns are the records of the catalog that have,
\* for every supplied field, one of the values supplied for it under the
\* field's comparator (name: CONTAINS and code: EQUALS unless passed), in
\* catalog order; and it raises FinamObjectNotFoundError only when there is
\* no such record.
C9_LookupReturnsSatisfying ==
    /\ found.kind = "ok" =>
          LET idx == SatisfyingIdx(query.v) IN
          /\ meta.some
          /\ Len(found.rows) = Cardinality(idx)
          /\ \A j \in 1..Len(found.rows) :
                \E k \in idx :
                    /\ Cardinality({ k2 \in idx : k2 <= k }) = j
                    /\ found.rows[j] = meta.v[k]
    /\ found.kind = "FinamObjectNotFoundError" =>
          meta.some /\ SatisfyingIdx(query.v) = {}

C9_Witness ==
    /\ found.kind = "ok"
    /\ query.v.name = Many(<<a, bb>>)
    /\ query.v.name_comparator = <<>>
    /\ query.v.code = Many(<<a, b>>)
    /\ query.v.code_comparator = <<>>
    /\ query.v.market = One(2)
    /\ Len(found.rows) = 2

\* C11: an empty response body is replaced by the tick header when the
\* timeframe is ticks and by the OHLCV header otherwise, passes the
\* classifier, is parsed without error or retry, and adds no row to the
\* frame.
C11_EmptyBodyIsEmptyFrame ==
    fetched = Some(<<>>) =>
        /\ data = (IF timeframe = "TICKS" THEN EMPTY_RESULT_TICKS ELSE EMPTY_RESULT_NOT_TICKS)
        /\ error = "none"
        /\ pc # "raised"
        /\ parsed # <<>>
        /\ parsed[Len(parsed)].text = data
        /\ LET c == parsed[Len(parsed)].chunk IN
           /\ \E k \in FetchIdx(c) :
                 /\ log[k].outcome = "none"
                 /\ \/ k = Len(log)
                    \/ /\ k = Len(log) - 1
                       /\ log[Len(log)] = Sleep(delay)
                       /\ counter = c + 1
           /\ counter = c => retries = Cardinality(InProgressIdx(c))
        /\ df.some
        /\ df.v = RowsUpTo(Len(parsed) - 1)

C11_Witness ==
    /\ pc = "returned"
    /\ fetched = Some(<<>>)
    /\ timeframe = "TICKS"
    /\ data = EMPTY_RESULT_TICKS
    /\ Len(chunks) = 2
    /\ Len(result.v) = 2

\* Character c occurs in text t.
Occurs(c, t) ==
    \E k \in 1..Len(t) : t[k] = c \/ (c \in {"<", ">"} /\ t[k] \in HeaderFields)

\* C12: a non-empty response holding none of the three provider messages is
\* passed on to the parser exactly when '<', '>' and ';' all occur in it;
\* otherwise the download ends at once with FinamParsingError, the fetch
\* being the last call made, not counted as a retry, and nothing returned.
C12_MalformedIffCharMissing ==
    (fetched.some /\ fetched.v # <<>> /\ \A k \in 1..Len(fetched.v) : fetched.v[k] \notin Markers)
      => IF \A c \in {"<", ">", ";"} : Occurs(c, fetched.v)
         THEN /\ parsed # <<>>
              /\ parsed[Len(parsed)].text = fetched.v
              /\ \E k \in FetchIdx(parsed[Len(parsed)].chunk) :
                     log[k].outcome \in {"none", "ParserError"}
              /\ pc = "raised" => LastIsFetch("ParserError")
         ELSE /\ pc = "raised"
              /\ error = "FinamParsingError"
              /\ LastIsFetch("FinamParsingError")
              /\ retries = Cardinality(InProgressIdx(counter))
              /\ result = NONE
              /\ \A j \in 1..Len(parsed) : parsed[j].chunk # counter

C12_Witness ==
    /\ pc = "raised"
    /\ fetched = Some(<<"<", ";">>)
    /\ error = "FinamParsingError"
    /\ counter = 2
    /\ retries = 1

\* The fetches of a load that succeeds: the landing page, then the file.
GoodLoad == <<MetaFetch("page", FALSE, <<>>), MetaFetch("file", FALSE, GoodLines)>>

C14_ReadsLeaveCache ==
    /\ meta.some => meta.v = ParseJs(MetaFileA)
    /\ pc = "read" => held = (IF meta.some THEN Frame(FALSE, ParseJs(MetaFileA)) ELSE NoFrame)
    /\ (pc = "looked" /\ found.kind = "ok") =>
          /\ held.v = found.rows
          /\ \A j \in 1..Len(held.v) :
                \E k \in 1..Len(ParseJs(MetaFileA)) : held.v[j] = ParseJs(MetaFileA)[k]
    /\ pc = "mutated" => held.v = <<>> /\ meta.some

C14_Witness ==
    /\ pc = "mutated"
    /\ query = NONE
    /\ held.v = <<>>
    /\ meta = Some(ParseJs(MetaFileA))

\* C17: while a chunk is being fetched the retry count is the number of
\* 'already in progress' answers that chunk got, whatever earlier chunks or
\* earlier invocations got, and the download gives up on that answer only
\* when the chunk itself has used up its retries.
C17_RetriesPerChunk ==
    /\ pc = "fetch" => retries = Cardinality(InProgressIdx(counter))
    /\ (pc = "raised" /\ error = InProgress) =>
          ~RetryAllowed(Cardinality(InProgressIdx(counter)) - 1, max_in_progress_retries)
    /\ (pc = "fetch" /\ FetchIdx(counter) = {}) => retries = 0

C17_Witness ==
    /\ pc = "fetch"
    /\ counter = 2
    /\ retries = 0
    /\ Cardinality(InProgressIdx(1)) = 2
    /\ max_in_progress_retries = 1

\* The metadata file was fetched and one of its four lines lacks '[' or ']'.
FileLacksBracket ==
    \E k \in 1..Len(metalog) :
        /\ metalog[k].url = "file"
        /\ ~metalog[k].raised
        /\ \E j \in 1..4 : ~metalog[k].lines[j].open \/ ~metalog[k].lines[j].close

\* C16 (as claimed): when a line of the fetched metadata file has no '[' or
\* no ']' the load fails with the parsing error (FinamParsingError), not with
\* the error of a failed transfer (FinamDownloadError), and the cache stays
\* unloaded.
C16_MissingBracketIsParsingError ==
    (found.kind # "none" /\ FileLacksBracket) =>
        /\ found.kind = "FinamParsingError"
        /\ found.kind # "FinamDownloadError"
        /\ meta = NONE

\* C20: a download() whose fetches and sleeps all return comes to an end, by
\* returning or by raising, whatever the fetcher answers: the loop over the
\* chunks never goes past the list and no chunk is fetched again once its
\* retries are used up.
C20_Terminates ==
    /\ <>(pc \in {"returned", "raised"})
    /\ [](counter <= Len(chunks))
    /\ [](\A c \in 1..Len(chunks) : Cardinality(FetchIdx(c)) <= max_in_progress_retries + 2)

C20_Witness ==
    /\ pc = "raised"
    /\ error = InProgress
    /\ max_in_progress_retries = MaxRetries
    /\ Cardinality(InProgressIdx(1)) = MaxRetries + 2
    /\ Cardinality(SleepIdx) = MaxRetries + 1

\* Drivers created so far, and those of them that quit() was never called on.
Drivers == 1..Len(quits)
OpenDrivers == { d \in Drivers : quits[d] = 0 }

\* C15: while no fetch has failed, the fetches are served in groups of
\* pages_to_load_max, one driver per group: the driver is created at the
\* first fetch of its group, is open at every get of the group, and is quit
\* once, at the end of the group's last fetch, so that after a whole number
\* of groups no driver is open.
C15_DriverSharedThenClosed ==
    (\A k \in 1..Len(outcomes) : outcomes[k] = "ok") =>
        LET n == Len(outcomes)
            done == n \div pages_to_load_max
            part == n % pages_to_load_max
        IN  /\ Len(gets) = n
            /\ \A k \in 1..n :
                  gets[k] = [driver |-> ((k - 1) \div pages_to_load_max) + 1, quit |-> FALSE]
            /\ Len(quits) = done + (IF part > 0 THEN 1 ELSE 0)
            /\ \A d \in 1..done : quits[d] = 1 /\ pages_to_load_cur[d] = 0
            /\ part = 0 => OpenDrivers = {}
            /\ part > 0 =>
                  /\ driver = done + 1
                  /\ OpenDrivers = {driver}
                  /\ pages_to_load_cur[driver] = pages_to_load_max - part

C15_Witness ==
    /\ outcomes = <<"ok", "ok", "ok">>
    /\ quits = <<1, 0>>
    /\ driver = 2

\* C18 (as claimed): get(url) is never called on a driver that quit() was
\* called on.
C18_FetchUsesOpenDriver ==
    \A k \in 1..Len(gets) : ~gets[k].quit

\* C19 (as claimed): quit() is called at most once on each driver, at most
\* one driver is open, and no remaining-pages counter is below 0.
C19_QuitOnceOneOpen ==
    /\ \A d \in Drivers : quits[d] <= 1
    /\ Cardinality(OpenDrivers) <= 1
    /\ \A d \in Drivers : pages_to_load_cur[d] >= 0

====
